---------------------------- MODULE Spec2Model ----------------------------
(***************************************************************************)
(* Model of the mood analysis engine, src/app/mood_analyzer.py             *)
(* (class MoodAnalyzer): seed-based clustering of observations, keyword    *)
(* classification of clusters, area mood and mood trends.                  *)
(*                                                                         *)
(* Conventions of the model                                                *)
(*  - time: a timestamp is an integer count of 10-minute units since an    *)
(*    epoch; get_mood_trends(hours) cuts its span into 6 periods of        *)
(*    hours/6 hours, that is `hours' units each.                           *)
(*  - place: all observations lie on one meridian; a latitude is the       *)
(*    integer arc length in metres along it, so that the haversine         *)
(*    distance of two points is the absolute difference of the two.        *)
(*  - emoji are named by strings ("smiling" is U+1F60A, ...).              *)
(*  - text: a string is a sequence of letter tokens; every Cyrillic        *)
(*    letter is one token (its transliteration), an upper-case letter is   *)
(*    the upper-case token.                                                *)
(*  - float arithmetic: Python floats are IEEE-754 doubles; the two        *)
(*    formulas that truncate a float to an int are computed on binary      *)
(*    expansions with round-to-nearest-even at 53 bits.                    *)
(***************************************************************************)
EXTENDS Integers, Sequences, FiniteSets, TLC

VARIABLES moods, op, args, ret, locals

vars == <<moods, op, args, ret, locals>>

---------------------------------------------------------------------------
(* Program constants *)

\* CLUSTER_RADIUS_KM = 1.0, in metres
CLUSTER_RADIUS_KM == 1000

\* TIME_WINDOW_HOURS = 4, in 10-minute units
TIME_WINDOW_HOURS == 24

MIN_CLUSTER_SIZE == 5

\* events below this confidence are not emitted by detect_events
MIN_CONFIDENCE == 30

\* flat bonus added to the keyword coverage
CONFIDENCE_BONUS == 20

\* number of periods of get_mood_trends
TREND_PERIODS == 6

\* 10-minute units in a day (strftime('%H:%M') drops the date)
DAY_UNITS == 144

\* significant bits of an IEEE-754 double
MANTISSA_BITS == 53

POSITIVE_EMOJIS == <<"smiling", "sunglasses", "hearts">>

NEGATIVE_EMOJIS == <<"crying", "angry", "mask">>

NEUTRAL_EMOJIS == <<"neutral", "thinking", "sleeping">>

\* the emoji of the neutral default of get_area_mood (U+1F610)
NEUTRAL_DEFAULT_EMOJI == "neutral"

EVENT_KEYWORDS == <<
  [name |-> "concert", keywords |-> <<
      <<"k","o","n","c","e","r","t">>,
      <<"m","u","z","y","k","a">>,
      <<"g","r","u","p","p","a">>,
      <<"sh","o","u">>,
      <<"v","y","s","t","u","p","l","e","n","i","e">>
  >>],
  [name |-> "sports", keywords |-> <<
      <<"i","g","r","a">>,
      <<"m","a","t","ch">>,
      <<"s","p","o","r","t">>,
      <<"k","o","m","a","n","d","a">>,
      <<"p","o","b","e","d","a">>,
      <<"p","r","o","i","g","r","y","sh">>
  >>],
  [name |-> "traffic", keywords |-> <<
      <<"p","r","o","b","k","a">>,
      <<"z","a","t","o","r">>,
      <<"a","v","a","r","i","ya">>,
      <<"d","o","r","o","g","a">>,
      <<"m","a","sh","i","n","a">>
  >>],
  [name |-> "weather", keywords |-> <<
      <<"d","o","zh","d","soft">>,
      <<"s","n","e","g">>,
      <<"zh","a","r","a">>,
      <<"h","o","l","o","d">>,
      <<"p","o","g","o","d","a">>,
      <<"g","r","o","z","a">>
  >>],
  [name |-> "food", keywords |-> <<
      <<"r","e","s","t","o","r","a","n">>,
      <<"e","d","a">>,
      <<"p","o","k","u","sh","a","t","soft">>,
      <<"u","zh","i","n">>,
      <<"o","b","e","d">>
  >>],
  [name |-> "party", keywords |-> <<
      <<"v","e","ch","e","r","i","n","k","a">>,
      <<"p","r","a","z","d","n","i","k">>,
      <<"d","e","n","soft"," ","r","o","zh","d","e","n","i","ya">>,
      <<"yu","b","i","l","e","j">>
  >>]
>>

---------------------------------------------------------------------------
(* Sequences *)

Range(s) == {s[i] : i \in 1..Len(s)}

Last(s) == s[Len(s)]

Zeros(n) == [i \in 1..n |-> 0]

\* number of elements of s equal to e
CountOf(s, e) == Len(SelectSeq(s, LAMBDA x : x = e))

Abs(x) == IF x < 0 THEN -x ELSE x

---------------------------------------------------------------------------
(* IEEE-754 double arithmetic.  A float x >= 0 is a record [l, e]: l the   *)
(* significand as limbs of 14 bits, least significant limb first and the   *)
(* top limb not 0 (<<>> is zero), e the exponent of its lowest bit: the    *)
(* value is (SUM l[k] * 2^(14 * (k - 1))) * 2^e.  Every operation computes *)
(* the exact result and rounds it to 53 significant bits, ties to even.    *)

LimbBase == 2^14

\* l without its top limbs that are 0
Trim(l) ==
  IF \A k \in 1..Len(l) : l[k] = 0 THEN <<>>
  ELSE SubSeq(l, 1, CHOOSE n \in 1..Len(l) :
                      l[n] # 0 /\ \A k \in (n + 1)..Len(l) : l[k] = 0)

\* number of significant bits of the limbs l (trimmed, not empty)
BitLength(l) ==
  14 * (Len(l) - 1) + CHOOSE w \in 1..14 : Last(l) < 2^w /\ Last(l) >= 2^(w - 1)

\* bit i (0 is the lowest) of the limbs l
BitAt(l, i) == (l[(i \div 14) + 1] \div 2^(i % 14)) % 2

\* whether the lowest s bits of the limbs l are all 0
LowBitsZero(l, s) ==
  /\ \A k \in 1..(s \div 14) : l[k] = 0
  /\ (s % 14 = 0 \/ l[(s \div 14) + 1] % 2^(s % 14) = 0)

\* the limbs l without their lowest s bits
ShiftRight(l, s) ==
  Trim([k \in 1..(Len(l) - (s \div 14)) |->
          (l[k + (s \div 14)] \div 2^(s % 14))
          + (IF k + (s \div 14) + 1 <= Len(l)
             THEN (l[k + (s \div 14) + 1] % 2^(s % 14)) * 2^(14 - (s % 14))
             ELSE 0)])

\* the limbs of c * 2^s for an integer 0 <= c < 2^15
ShiftLeftInt(c, s) ==
  Zeros(s \div 14) \o Trim(<<(c * 2^(s % 14)) % LimbBase, (c * 2^(s % 14)) \div LimbBase>>)

\* the limbs of l * c + carry
RECURSIVE MulLimbs(_, _, _)
MulLimbs(l, c, carry) ==
  IF l = <<>>
  THEN IF carry = 0 THEN <<>>
       ELSE <<carry % LimbBase>> \o MulLimbs(l, c, carry \div LimbBase)
  ELSE <<(l[1] * c + carry) % LimbBase>>
       \o MulLimbs(Tail(l), c, (l[1] * c + carry) \div LimbBase)

\* the limbs of a + b + carry
RECURSIVE AddLimbs(_, _, _)
AddLimbs(a, b, carry) ==
  IF a = <<>> /\ b = <<>>
  THEN IF carry = 0 THEN <<>> ELSE <<carry>>
  ELSE LET v == (IF a = <<>> THEN 0 ELSE a[1]) + (IF b = <<>> THEN 0 ELSE b[1]) + carry
       IN <<v % LimbBase>> \o AddLimbs(IF a = <<>> THEN a ELSE Tail(a),
                                       IF b = <<>> THEN b ELSE Tail(b),
                                       v \div LimbBase)

\* the limbs l (more than 53 bits) without their lowest drop bits, rounded
\* to nearest, ties to even
RoundDropping(l, drop, keep) ==
  IF /\ BitAt(l, drop - 1) = 1
     /\ (~LowBitsZero(l, drop - 1) \/ keep[1] % 2 = 1)
  THEN AddLimbs(keep, <<>>, 1)
  ELSE keep

\* round the exact value l * 2^e to 53 significant bits, ties to even
RoundNearestEven(l, e) ==
  IF l = <<>> THEN [l |-> l, e |-> 0]
  ELSE IF BitLength(l) <= MANTISSA_BITS THEN [l |-> l, e |-> e]
  ELSE [l |-> RoundDropping(l, BitLength(l) - MANTISSA_BITS,
                            ShiftRight(l, BitLength(l) - MANTISSA_BITS)),
        e |-> e + BitLength(l) - MANTISSA_BITS]

\* long division: the first n limbs of the binary expansion of r / d
\* (0 <= r < d), least significant limb first, below them one limb that is
\* not 0 exactly if a remainder is left (the sticky bits)
RECURSIVE DivLimbs(_, _, _)
DivLimbs(r, d, n) ==
  IF n = 0 THEN <<IF r = 0 THEN 0 ELSE 1>>
  ELSE Append(DivLimbs((r * LimbBase) % d, d, n - 1), (r * LimbBase) \div d)

\* a / d for integers 0 <= a < 2^14 * d and 0 < d < 2^15, correctly rounded:
\* the quotient's integer part, 5 limbs (70 bits) of its fraction and the
\* sticky limb
FDiv(a, d) ==
  RoundNearestEven(Trim(Append(DivLimbs(a % d, d, 5), a \div d)), -84)

\* x * c for a float x >= 0 and an integer 0 <= c < 2^15, correctly rounded
FMulInt(x, c) == RoundNearestEven(Trim(MulLimbs(x.l, c, 0)), x.e)

\* x + c for a float 0 <= x < 2^14 and an integer 0 < c < 2^15, correctly rounded
FAddInt(x, c) ==
  IF x.e <= 0
  THEN RoundNearestEven(AddLimbs(x.l, ShiftLeftInt(c, -x.e), 0), x.e)
  ELSE RoundNearestEven(AddLimbs(ShiftLeftInt(x.l[1], x.e), <<c>>, 0), 0)

\* the integer of at most two limbs
SmallValue(l) ==
  IF l = <<>> THEN 0 ELSE IF Len(l) = 1 THEN l[1] ELSE l[1] + LimbBase * l[2]

\* int(x) for a float 0 <= x < 2^28: the integer part
FTrunc(x) ==
  IF x.e >= 0 THEN SmallValue(x.l) * 2^(x.e)
  ELSE IF -x.e >= 14 * Len(x.l) THEN 0
  ELSE SmallValue(ShiftRight(x.l, -x.e))

---------------------------------------------------------------------------
(* MoodAnalyzer: helpers *)

\* an observation (a dict of self.moods); the id is caller-assigned
Mood(id, emoji, text, latitude, timestamp) ==
  [id |-> id, emoji |-> emoji, text |-> text,
   latitude |-> latitude, timestamp |-> timestamp]

\* e in list
IsIn(e, list) == \E i \in 1..Len(list) : list[i] = e

\* haversine distance of two points of the meridian, in metres
_calculate_distance(lat1, lat2) == Abs(lat2 - lat1)

\* int((positive_count + neutral_count / 2) / total * 100), in floats
\* a neutral emoji counted as a whole positive one
PercentOfCounts_NeutralFull(positive_count, neutral_count, total) ==
  FTrunc(FMulInt(FDiv(2 * positive_count + 2 * neutral_count, 2 * total), 100))

PercentOfCounts(positive_count, neutral_count, total) ==
  FTrunc(FMulInt(FDiv(2 * positive_count + neutral_count, 2 * total), 100))

\* 0 instead of 50 when no emoji is in the three sets
PercentOrDefault_Zero(positive_count, negative_count, neutral_count) ==
  IF positive_count + negative_count + neutral_count = 0 THEN 0
  ELSE PercentOfCounts(positive_count, neutral_count,
                       positive_count + negative_count + neutral_count)

\* the last two returns of _calculate_mood_percentage
PercentOrDefault(positive_count, negative_count, neutral_count) ==
  IF positive_count + negative_count + neutral_count = 0 THEN 50
  ELSE PercentOfCounts(positive_count, neutral_count,
                       positive_count + negative_count + neutral_count)

\* sum(1 for m in moods if m['emoji'] in emojis)
CountEmoji(ms, emojis) == Len(SelectSeq(ms, LAMBDA m : IsIn(m.emoji, emojis)))

_calculate_mood_percentage(ms) ==
  IF ms = <<>> THEN 50
  ELSE PercentOrDefault(CountEmoji(ms, POSITIVE_EMOJIS),
                        CountEmoji(ms, NEGATIVE_EMOJIS),
                        CountEmoji(ms, NEUTRAL_EMOJIS))

\* the last counted of the emoji with the highest count
MostCommon_Last(emojis) ==
  emojis[CHOOSE i \in 1..Len(emojis) :
           /\ \A j \in 1..Len(emojis) :
                CountOf(emojis, emojis[j]) <= CountOf(emojis, emojis[i])
           /\ \A j \in (i + 1)..Len(emojis) :
                CountOf(emojis, emojis[j]) < CountOf(emojis, emojis[i])
                  \/ emojis[j] = emojis[i]
           /\ \A j \in 1..(i - 1) : emojis[j] # emojis[i]]

\* Counter(emojis).most_common(1)[0][0]: the first counted of the emoji with
\* the highest count
MostCommon(emojis) ==
  emojis[CHOOSE i \in 1..Len(emojis) :
           /\ \A j \in 1..Len(emojis) :
                CountOf(emojis, emojis[j])
                  <= CountOf(emojis, emojis[i])
           /\ \A j \in 1..(i - 1) :
                CountOf(emojis, emojis[j])
                  < CountOf(emojis, emojis[i])]

EmojisOf(ms) == [i \in 1..Len(ms) |-> ms[i].emoji] \o <<>>

\* str.lower() of one letter
LowerLetter(c) ==
  CASE c = "K" -> "k" [] c = "O" -> "o" [] c = "N" -> "n" [] c = "C" -> "c"
    [] c = "E" -> "e" [] c = "R" -> "r" [] c = "T" -> "t" [] c = "P" -> "p"
    [] c = "I" -> "i" [] c = "G" -> "g" [] c = "A" -> "a" [] c = "M" -> "m"
    [] OTHER -> c

Lower(text) == [i \in 1..Len(text) |-> LowerLetter(text[i])] \o <<>>

\* keyword in text: keyword is a substring of text
Contains(text, keyword) ==
  \E i \in 1..(Len(text) - Len(keyword) + 1) :
    \A j \in 1..Len(keyword) : text[i + j - 1] = keyword[j]

\* ' '.join(texts)
RECURSIVE Join(_)
Join(texts) ==
  IF texts = <<>> THEN <<>>
  ELSE IF Len(texts) = 1 THEN texts[1]
  ELSE texts[1] \o <<" ">> \o Join(Tail(texts))

---------------------------------------------------------------------------
(* MoodAnalyzer._detect_event_type *)

\* found_keywords[event_type] of category c
FoundKeywords(text, c) ==
  SelectSeq(EVENT_KEYWORDS[c].keywords, LAMBDA keyword : Contains(text, keyword))

\* event_scores, in the order of EVENT_KEYWORDS
EventScores(text) ==
  [c \in 1..Len(EVENT_KEYWORDS) |-> Len(FoundKeywords(text, c))] \o <<>>

\* the last category with the highest score
BestEventType_Last(event_scores) ==
  CHOOSE c \in 1..Len(event_scores) :
    /\ \A d \in 1..Len(event_scores) : event_scores[d] <= event_scores[c]
    /\ \A d \in (c + 1)..Len(event_scores) : event_scores[d] < event_scores[c]

\* max(event_scores, key=event_scores.get): the first category with the
\* highest score
BestEventType(event_scores) ==
  CHOOSE c \in 1..Len(event_scores) :
    /\ \A d \in 1..Len(event_scores) : event_scores[d] <= event_scores[c]
    /\ \A d \in 1..(c - 1) : event_scores[d] < event_scores[c]

\* the cap left out
MinWith100_NoCap(x) == x

\* min(x, 100) for a float x, as an integer
MinWith100(x) == IF x >= 100 THEN 100 ELSE x

\* a / b rounded to the nearest integer, a tie to the even one
RoundDiv(a, b) ==
  IF (2 * a) % (2 * b) = b
  THEN (IF (a \div b) % 2 = 0 THEN a \div b ELSE a \div b + 1)
  ELSE (2 * a + b) \div (2 * b)

\* the ratio rounded before the bonus is added
Confidence_Rounded(best_score, max_score) ==
  MinWith100(RoundDiv(best_score * 100, max_score) + CONFIDENCE_BONUS)

\* the confidence without the 20 added to the ratio
Confidence_NoBonus(best_score, max_score) ==
  MinWith100(FTrunc(FMulInt(FDiv(best_score, max_score), 100)))

\* int(min(best_score / max_score * 100 + 20, 100))
Confidence(best_score, max_score) ==
  MinWith100(FTrunc(FAddInt(FMulInt(FDiv(best_score, max_score), 100),
                            CONFIDENCE_BONUS)))

Unknown == [type |-> "unknown", keywords |-> <<>>, confidence |-> 0]

BestEvent(text, best) ==
  [type |-> EVENT_KEYWORDS[best].name,
   keywords |-> FoundKeywords(text, best),
   confidence |-> Confidence(Len(FoundKeywords(text, best)),
                             Len(EVENT_KEYWORDS[best].keywords))]

ScoredEvent(text, event_scores) ==
  IF \A c \in 1..Len(event_scores) : event_scores[c] = 0 THEN Unknown
  ELSE BestEvent(text, BestEventType(event_scores))

_detect_event_type(text) ==
  IF text = <<>> THEN Unknown ELSE ScoredEvent(text, EventScores(text))

---------------------------------------------------------------------------
(* MoodAnalyzer.cluster_moods *)

\* position of moods[i] in sorted(moods, key=timestamp, reverse=True): the
\* sort is stable, equal timestamps keep the order of the list
SortRank(ms, i) ==
  1 + Cardinality({j \in 1..Len(ms) : ms[j].timestamp > ms[i].timestamp})
    + Cardinality({j \in 1..(i - 1) : ms[j].timestamp = ms[i].timestamp})

\* sorted without reverse=True: the oldest observation first
SortedMoods_Ascending(ms) ==
  [p \in 1..Len(ms) |->
     ms[CHOOSE i \in 1..Len(ms) :
          p = 1 + Cardinality({j \in 1..Len(ms) : ms[j].timestamp < ms[i].timestamp})
                + Cardinality({j \in 1..(i - 1) : ms[j].timestamp = ms[i].timestamp})]] \o <<>>

SortedMoods(ms) ==
  [p \in 1..Len(ms) |-> ms[CHOOSE i \in 1..Len(ms) : SortRank(ms, i) = p]] \o <<>>

\* self.moods sorted in place
SelfMoodsAfterSort_InPlace(ms) == SortedMoods(ms)

\* self.moods after sorted(self.moods, ...): sorted() builds a new list and
\* leaves its argument as it is
SelfMoodsAfterSort(ms) == ms

\* the test without its condition on the time difference
InCluster_NoTime(mood, other_mood) ==
  _calculate_distance(mood.latitude, other_mood.latitude) <= CLUSTER_RADIUS_KM

\* the test with both bounds exclusive
InCluster_Inside(mood, other_mood) ==
  /\ Abs(mood.timestamp - other_mood.timestamp) < TIME_WINDOW_HOURS
  /\ _calculate_distance(mood.latitude, other_mood.latitude) < CLUSTER_RADIUS_KM

\* the test that adds other_mood to the cluster of the seed mood
InCluster(mood, other_mood) ==
  /\ Abs(mood.timestamp - other_mood.timestamp) <= TIME_WINDOW_HOURS
  /\ _calculate_distance(mood.latitude, other_mood.latitude) <= CLUSTER_RADIUS_KM

IdsOf(ms) == {ms[i].id : i \in 1..Len(ms)}

\* the inner loop without its test on processed_ids
ClusterOfSeed_NoSkip(sorted_moods, mood, processed_ids) ==
  <<mood>> \o SelectSeq(sorted_moods,
                        LAMBDA other_mood : /\ other_mood.id # mood.id
                                            /\ InCluster(mood, other_mood))

\* cluster_moods of the seed mood: the seed, then every mood not processed
\* yet that passes the test, in sorted order
ClusterOfSeed(sorted_moods, mood, processed_ids) ==
  <<mood>> \o SelectSeq(sorted_moods,
                        LAMBDA other_mood : /\ other_mood.id # mood.id
                                            /\ other_mood.id \notin processed_ids
                                            /\ InCluster(mood, other_mood))

\* the members of a cluster that is not kept given back, its seed excepted
ProcessedAfter_KeptOnly(cluster_moods, processed_ids) ==
  IF Len(cluster_moods) >= MIN_CLUSTER_SIZE
  THEN processed_ids \cup IdsOf(cluster_moods)
  ELSE processed_ids \cup {cluster_moods[1].id}

\* processed_ids after the inner loop: the seed and every member were added
\* when they joined cluster_moods, before the size of the cluster is tested
ProcessedAfter(cluster_moods, processed_ids) ==
  processed_ids \cup IdsOf(cluster_moods)

\* the outer loop from position i on: the clusters formed, kept or not, each
\* with the ids processed before its seed
RECURSIVE Candidates(_, _, _)
Candidates(sorted_moods, i, processed_ids) ==
  IF i > Len(sorted_moods) THEN <<>>
  ELSE IF sorted_moods[i].id \in processed_ids
  THEN Candidates(sorted_moods, i + 1, processed_ids)
  ELSE <<[seed |-> sorted_moods[i], processed_before |-> processed_ids,
          moods |-> ClusterOfSeed(sorted_moods, sorted_moods[i], processed_ids)]>>
       \o Candidates(sorted_moods, i + 1,
                     ProcessedAfter(ClusterOfSeed(sorted_moods, sorted_moods[i],
                                                  processed_ids),
                                    processed_ids))

\* every cluster kept
IsKept_Any(cluster_moods) == Len(cluster_moods) >= 1

\* the size test off by one
IsKept_OneLess(cluster_moods) == Len(cluster_moods) >= MIN_CLUSTER_SIZE - 1

\* len(cluster_moods) >= MIN_CLUSTER_SIZE
IsKept(cluster_moods) == Len(cluster_moods) >= MIN_CLUSTER_SIZE

RECURSIVE SumLatitude(_)
SumLatitude(ms) ==
  IF ms = <<>> THEN 0 ELSE ms[1].latitude + SumLatitude(Tail(ms))

\* the dict appended for a kept cluster; the center lat_sum / len is kept
\* as the pair of the sum and the length
Cluster(cluster_moods) ==
  [center |-> <<SumLatitude(cluster_moods), Len(cluster_moods)>>,
   moods |-> cluster_moods,
   dominant_emoji |-> MostCommon(EmojisOf(cluster_moods)),
   mood_percentage |-> _calculate_mood_percentage(cluster_moods)]

\* every kept cluster put in front of the list
ClustersOf_Reversed(candidates) ==
  LET kept == SelectSeq(candidates, LAMBDA c : IsKept(c.moods))
  IN [k \in 1..Len(kept) |-> Cluster(kept[Len(kept) + 1 - k].moods)] \o <<>>

ClustersOf(candidates) ==
  LET kept == SelectSeq(candidates, LAMBDA c : IsKept(c.moods))
  IN [k \in 1..Len(kept) |-> Cluster(kept[k].moods)] \o <<>>

cluster_moods(ms) == ClustersOf(Candidates(SortedMoods(ms), 1, {}))

---------------------------------------------------------------------------
(* MoodAnalyzer.detect_events *)

\* m['text'].lower() of each mood
LoweredTexts(ms) == [i \in 1..Len(ms) |-> Lower(ms[i].text)] \o <<>>

\* all_text of a cluster: the lowered texts that are not empty, joined
AllText(cluster) ==
  Join(LoweredTexts(SelectSeq(cluster.moods, LAMBDA m : m.text # <<>>)))

\* what _detect_event_type returns for each cluster, in order
Classified(clusters) ==
  [k \in 1..Len(clusters) |->
     [cluster |-> clusters[k], detected |-> _detect_event_type(AllText(clusters[k]))]] \o <<>>

\* the confidence filter left out
IsEmitted_All(confidence) == confidence >= 0

\* confidence >= 30
IsEmitted(confidence) == confidence >= MIN_CONFIDENCE

\* moods_count taken from the keywords
Event_CountKeywords(cluster, detected) ==
  [location |-> cluster.center,
   type |-> detected.type,
   confidence |-> detected.confidence,
   dominant_emoji |-> cluster.dominant_emoji,
   mood_percentage |-> cluster.mood_percentage,
   moods_count |-> Len(detected.keywords),
   keywords |-> detected.keywords]

Event(cluster, detected) ==
  [location |-> cluster.center,
   type |-> detected.type,
   confidence |-> detected.confidence,
   dominant_emoji |-> cluster.dominant_emoji,
   mood_percentage |-> cluster.mood_percentage,
   moods_count |-> Len(cluster.moods),
   keywords |-> detected.keywords]

EventsOf(classified) ==
  LET emitted == SelectSeq(classified, LAMBDA x : IsEmitted(x.detected.confidence))
  IN [k \in 1..Len(emitted) |-> Event(emitted[k].cluster, emitted[k].detected)] \o <<>>

detect_events(ms) == EventsOf(Classified(cluster_moods(ms)))

---------------------------------------------------------------------------
(* MoodAnalyzer.get_area_mood *)

\* distance <= radius_km
InArea(lat, radius_km, mood) == _calculate_distance(lat, mood.latitude) <= radius_km

AreaMoods(ms, lat, radius_km) == SelectSeq(ms, LAMBDA mood : InArea(lat, radius_km, mood))

\* the result for an area without observations
AreaDefault ==
  [dominant_emoji |-> NEUTRAL_DEFAULT_EMOJI, mood_percentage |-> 50, moods_count |-> 0]

\* the percentage of an empty trend period for an area without observations
AreaMoodOf_ZeroDefault(area_moods) ==
  IF area_moods = <<>>
  THEN [dominant_emoji |-> NEUTRAL_DEFAULT_EMOJI, mood_percentage |-> 0, moods_count |-> 0]
  ELSE [dominant_emoji |-> MostCommon(EmojisOf(area_moods)),
        mood_percentage |-> _calculate_mood_percentage(area_moods),
        moods_count |-> Len(area_moods)]

AreaMoodOf(area_moods) ==
  IF area_moods = <<>> THEN AreaDefault
  ELSE [dominant_emoji |-> MostCommon(EmojisOf(area_moods)),
        mood_percentage |-> _calculate_mood_percentage(area_moods),
        moods_count |-> Len(area_moods)]

get_area_mood(ms, lat, radius_km) == AreaMoodOf(AreaMoods(ms, lat, radius_km))

---------------------------------------------------------------------------
(* MoodAnalyzer.get_mood_trends *)

\* period i (0 is the most recent): hours / 6 hours are `hours' units
PeriodEnd(now, hours, i) == now - i * hours

PeriodStart(now, hours, i) == now - (i + 1) * hours

\* period_start <= mood_time <= period_end
InPeriod(period_start, period_end, mood) ==
  period_start <= mood.timestamp /\ mood.timestamp <= period_end

PeriodMoods(ms, now, hours, i) ==
  SelectSeq(ms, LAMBDA mood : InPeriod(PeriodStart(now, hours, i),
                                       PeriodEnd(now, hours, i), mood))

\* the shared percentage also for an empty period
PeriodPercentage_Shared(period_moods) == _calculate_mood_percentage(period_moods)

\* the percentage of a period
PeriodPercentage(period_moods) ==
  IF period_moods # <<>> THEN _calculate_mood_percentage(period_moods) ELSE 0

\* strftime('%H:%M'): hour and minute of the day
HourMinute(t) == <<(t % DAY_UNITS) \div 6, ((t % DAY_UNITS) % 6) * 10>>

PeriodLabel(period_start, period_end) ==
  [from |-> HourMinute(period_start), to |-> HourMinute(period_end)]

\* every emoji counted once
EmojiCounts_Presence(ms) == [e \in Range(EmojisOf(ms)) |-> 1]

\* only the emoji of the three sets counted
EmojiCounts_Taxonomy(ms) ==
  [e \in {x \in Range(EmojisOf(ms)) :
            IsIn(x, POSITIVE_EMOJIS \o NEGATIVE_EMOJIS \o NEUTRAL_EMOJIS)}
     |-> CountOf(EmojisOf(ms), e)]

\* emoji_counts
EmojiCounts(ms) ==
  [e \in Range(EmojisOf(ms)) |-> CountOf(EmojisOf(ms), e)]

\* the most recent period compared with the oldest one
TrendDirection_Oldest(mood_percentages) ==
  IF Len(mood_percentages) >= 2
  THEN IF mood_percentages[1] > mood_percentages[Len(mood_percentages)] THEN "up"
       ELSE IF mood_percentages[1] < mood_percentages[Len(mood_percentages)] THEN "down"
       ELSE "stable"
  ELSE "stable"

TrendDirection(mood_percentages) ==
  IF Len(mood_percentages) >= 2
  THEN IF mood_percentages[1] > mood_percentages[2] THEN "up"
       ELSE IF mood_percentages[1] < mood_percentages[2] THEN "down"
       ELSE "stable"
  ELSE "stable"

TrendsOf(ms, time_periods, mood_percentages) ==
  [time_periods |-> time_periods,
   mood_percentages |-> mood_percentages,
   emoji_counts |-> EmojiCounts(ms),
   trend_direction |-> TrendDirection(mood_percentages)]

get_mood_trends(ms, hours, now) ==
  TrendsOf(ms,
           [i \in 1..TREND_PERIODS |->
              PeriodLabel(PeriodStart(now, hours, i - 1), PeriodEnd(now, hours, i - 1))] \o <<>>,
           [i \in 1..TREND_PERIODS |->
              PeriodPercentage(PeriodMoods(ms, now, hours, i - 1))] \o <<>>)


---------------------------------------------------------------------------
(* app.py: the endpoints /api/events and /api/trends.  An argument of the  *)
(* request that may be absent is <<>> (None) or <<value>>.                 *)

\* get_mood_data_for_api: the rows of the table, then the filters on time
\* (timestamp > cutoff_time, hours being hours of 6 units), on the emoji
\* and on the place, each applied when its arguments are given
get_mood_data_for_api(rows, lat, radius, hours, emojis, now) ==
  LET by_time == IF hours # <<>>
                 THEN SelectSeq(rows, LAMBDA mood : mood.timestamp > now - 6 * hours[1])
                 ELSE rows
      by_emoji == IF emojis # <<>>
                  THEN SelectSeq(by_time, LAMBDA mood : IsIn(mood.emoji, emojis))
                  ELSE by_time
  IN IF lat # <<>> /\ radius # <<>>
     THEN SelectSeq(by_emoji,
                    LAMBDA mood : _calculate_distance(lat[1], mood.latitude) <= radius[1])
     ELSE by_emoji

\* the filter with > in place of >=
FilterByConfidence_Strict(events, min_confidence) ==
  IF min_confidence > 0
  THEN SelectSeq(events, LAMBDA event : event.confidence > min_confidence)
  ELSE events

\* get_events: the filter on the confidence of the events
FilterByConfidence(events, min_confidence) ==
  IF min_confidence > 0
  THEN SelectSeq(events, LAMBDA event : event.confidence >= min_confidence)
  ELSE events

\* get_events: the events of the analyzer of the filtered rows, filtered
get_events(rows, lat, radius, hours, min_confidence, now) ==
  FilterByConfidence(
    detect_events(get_mood_data_for_api(rows, lat, radius, <<hours>>, <<>>, now)),
    min_confidence)

\* get_trends: trends['total_moods'] = len(moods)
WithTotalMoods(trends, ms) ==
  [time_periods |-> trends.time_periods,
   mood_percentages |-> trends.mood_percentages,
   emoji_counts |-> trends.emoji_counts,
   trend_direction |-> trends.trend_direction,
   total_moods |-> Len(ms)]

\* get_trends: the trends of the analyzer of the rows filtered by place,
\* with the number of these rows
get_trends(rows, hours, lat, radius, now) ==
  WithTotalMoods(
    get_mood_trends(get_mood_data_for_api(rows, lat, radius, <<>>, <<>>, now), hours, now),
    get_mood_data_for_api(rows, lat, radius, <<>>, <<>>, now))
---------------------------------------------------------------------------
(* Inputs.  The analyzer is constructed on a list of observations; the     *)
(* specifications below differ in the lists they start from and in the     *)
(* operations they call.  The id of an observation is its position.        *)

\* longest list of the clustering specifications
MaxMoods == 5

\* longest list of the area and trend specifications
MaxList == 3

\* most positive, negative and neutral emoji of the lists of the percentage
\* specification
MaxPositive == 14

MaxNegative == 10

MaxNeutral == 2

\* lists of one emoji class with a few emoji of the others: the most emoji
\* of the one class and of each other class
MaxMany == 51

MaxFew == 2

MaxCopies == 5

\* "Koncert" with a capital letter, "privet" (no keyword), "pobeda" (holds
\* the keywords pobeda, eda and obed), "den'" and "rozhdeniya" (a keyword
\* when joined), and the five keywords of the category concert
TextKoncert == <<"K","o","n","c","e","r","t">>

TextPrivet == <<"p","r","i","v","e","t">>

TextPobeda == <<"p","o","b","e","d","a">>

TextDen == <<"d","e","n","soft">>

TextRozhdeniya == <<"r","o","zh","d","e","n","i","ya">>

TextConcertAll == Join(EVENT_KEYWORDS[1].keywords)

\* places and times around the cluster radius and the time window
ClusterPoints ==
  { <<0, 1000>>, <<1000, 1000>>, <<1001, 1000>>,
    <<0, 1024>>, <<1000, 1024>>, <<0, 1025>> }

EventTexts == {<<>>, TextKoncert, TextPrivet, TextPobeda, TextDen, TextRozhdeniya}

\* "tada" (U+1F389) is in none of the three emoji sets
AreaPoints == {"smiling", "crying", "neutral", "tada"} \X {0, 5000, 5001}

AreaCenters == {0, 20000}

AreaRadii == {1000, 5000}

\* times before every span, in an older period, on and around the bound of
\* the two most recent periods, at the clock and after it
TrendTimes == {1000, 1100, 1176, 1200, 1201}

TrendEmoji == {"smiling", "crying", "tada"}

\* a positive emoji at every time, a negative one on the bound and at the
\* clock, one outside the three sets in an older period and at the clock
TrendPoints ==
  ({"smiling"} \X TrendTimes)
    \cup {<<"crying", 1176>>, <<"crying", 1200>>, <<"tada", 1100>>, <<"tada", 1200>>}

TrendHours == {1, 24}

TrendClock == {1200, 1206}

\* sample observations of the specification of all operations:
\* <<emoji, text, latitude, timestamp>>
SamplePoints ==
  { <<"smiling", <<>>, 0, 1200>>,
    <<"crying", TextKoncert, 1000, 1176>>,
    <<"thinking", TextConcertAll, 0, 1199>>,
    <<"tada", TextPrivet, 1001, 1200>>,
    <<"mask", TextPobeda, 0, 1175>> }

\* the list of observations with the fields f[i] = <<emoji, text, latitude,
\* timestamp>>
MoodsOf(f) ==
  [i \in 1..Len(f) |-> Mood(i, f[i][1], f[i][2], f[i][3], f[i][4])] \o <<>>

\* p positive, n negative, u neutral and o other emoji, in this order, the
\* emoji of a class taken in turn
EmojiList(p, n, u, o) ==
  [i \in 1..(p + n + u + o) |->
     IF i <= p THEN POSITIVE_EMOJIS[(i % 3) + 1]
     ELSE IF i <= p + n THEN NEGATIVE_EMOJIS[(i % 3) + 1]
     ELSE IF i <= p + n + u THEN NEUTRAL_EMOJIS[(i % 3) + 1]
     ELSE "tada"] \o <<>>

\* the keywords of category c at the indices S, in the order of the table
SomeKeywords(c, S) ==
  SelectSeq(EVENT_KEYWORDS[c].keywords,
            LAMBDA k : \E i \in S : EVENT_KEYWORDS[c].keywords[i] = k)

ExtraWords == {<<>>, TextKoncert, TextPrivet, EVENT_KEYWORDS[1].keywords[1],
               EVENT_KEYWORDS[2].keywords[1], EVENT_KEYWORDS[2].keywords[5]}

\* texts for _detect_event_type: some keywords of one category, joined, and
\* possibly one more word
TypeTexts ==
  {<<>>} \cup
  { Join(SomeKeywords(c, S) \o (IF w = <<>> THEN <<>> ELSE <<w>>)) :
      <<c, S, w>> \in { x \in (1..Len(EVENT_KEYWORDS)) \X (SUBSET (1..6)) \X ExtraWords :
                          x[2] \subseteq 1..Len(EVENT_KEYWORDS[x[1]].keywords) } }

Idle == op = "init" /\ args = <<>> /\ ret = <<>> /\ locals = <<>>

InitCluster ==
  /\ \E n \in 0..MaxMoods : \E f \in [1..n -> ClusterPoints] :
       moods = MoodsOf([i \in 1..n |-> <<"smiling", <<>>, f[i][1], f[i][2]>>])
  /\ Idle

InitEvents ==
  /\ \E n \in 0..MaxMoods : \E f \in [1..n -> EventTexts] :
       moods = MoodsOf([i \in 1..n |-> <<"smiling", f[i], 0, 1000>>])
  /\ Idle

InitArea ==
  /\ \E n \in 0..MaxList : \E f \in [1..n -> AreaPoints] :
       moods = MoodsOf([i \in 1..n |-> <<f[i][1], <<>>, f[i][2], 1000>>])
  /\ Idle

InitTrends ==
  /\ \E n \in 0..MaxList : \E f \in [1..n -> TrendPoints] :
       moods = MoodsOf([i \in 1..n |-> <<f[i][1], <<>>, 0, f[i][2]>>])
  /\ Idle

InitCounts ==
  /\ \E p \in 0..MaxPositive, n \in 0..MaxNegative, u \in 0..MaxNeutral, o \in 0..1 :
       moods = MoodsOf([i \in 1..(p + n + u + o) |->
                          <<EmojiList(p, n, u, o)[i], <<>>, 0, 1000>>])
  /\ Idle

InitSample ==
  /\ \E n \in 0..MaxMoods : \E f \in [1..n -> SamplePoints] : moods = MoodsOf(f)
  /\ Idle

InitEmpty == moods = <<>> /\ Idle

\* many positive emoji with few negative ones or few positive emoji with
\* many negative ones, and few neutral ones
InitExtremes ==
  /\ \E p \in 0..MaxMany, n \in 0..MaxMany, u \in 0..MaxFew, o \in 0..1 :
       /\ p <= MaxFew \/ n <= MaxFew
       /\ moods = MoodsOf([i \in 1..(p + n + u + o) |->
                             <<EmojiList(p, n, u, o)[i], <<>>, 0, 1000>>])
  /\ Idle

\* short lists of the sample observations, for analyzers called repeatedly
InitRepeat ==
  /\ \E n \in 0..MaxList : \E f \in [1..n -> SamplePoints] : moods = MoodsOf(f)
  /\ Idle

\* four groups of like observations, <<emoji, text, latitude, timestamp>>:
\* the second is within both bounds of the first and of the third, the
\* third is outside the time window of the first, the fourth is far from
\* all in time; the first has a keyword of sports (1 of 6), the second no
\* text, the third a text without keyword, the fourth a keyword of concert
\* (1 of 5)
GroupPoints ==
  << <<"smiling", EVENT_KEYWORDS[2].keywords[1], 0, 1025>>,
     <<"crying", <<>>, 1000, 1024>>,
     <<"thinking", TextPrivet, 1001, 1000>>,
     <<"tada", TextKoncert, 0, 900>> >>

\* n copies of x
Copies(x, n) == [i \in 1..n |-> x] \o <<>>

Reversed(s) == [i \in 1..Len(s) |-> s[Len(s) + 1 - i]] \o <<>>

\* a, b, c and d observations of the four groups, group after group
GroupList(a, b, c, d) ==
  Copies(GroupPoints[1], a) \o Copies(GroupPoints[2], b)
    \o Copies(GroupPoints[3], c) \o Copies(GroupPoints[4], d)

\* arguments of the requests: no place or the place 0 with the radius of a
\* cluster, the default span and a short one, thresholds below 0, 0, below
\* 30, and at and above the confidence of an event
ApiPlaces == {<<<<>>, <<>>>>, <<<<0>>, <<1000>>>>}

ApiEventHours == {24, 4}

ApiTrendHours == {24, 1}

ApiMinConfidence == {-5, 0, 20, 40, 41}

ApiClock == {1030}

\* lists long enough for several clusters: up to MaxCopies observations of
\* each group, the newest group first or the oldest group first
InitGroups ==
  /\ \E a, b, c, d \in 0..MaxCopies : \E backwards \in BOOLEAN :
       moods = MoodsOf(IF backwards THEN Reversed(GroupList(a, b, c, d))
                       ELSE GroupList(a, b, c, d))
  /\ Idle

\* the table of the observations for the requests: up to MaxCopies rows of
\* the first, the third and the fourth group
InitApi ==
  /\ \E a, c, d \in 0..MaxCopies : \E backwards \in BOOLEAN :
       moods = MoodsOf(IF backwards THEN Reversed(GroupList(a, 0, c, d))
                       ELSE GroupList(a, 0, c, d))
  /\ Idle

---------------------------------------------------------------------------
(* Operations.  app.py constructs one analyzer for a request and calls one *)
(* operation on it: an operation is called on a fresh analyzer.  ret is    *)
(* the value returned by the call, args its arguments, locals the values   *)
(* of its local variables named below.                                     *)

\* a call of cluster_moods; locals: the clusters formed by the outer loop,
\* kept or not
CallClusterMoods ==
  /\ op' = "cluster_moods"
  /\ args' = <<>>
  /\ locals' = Candidates(SortedMoods(moods), 1, {})
  /\ ret' = ClustersOf(locals')
  /\ moods' = SelfMoodsAfterSort(moods)

ClusterMoods == op = "init" /\ CallClusterMoods

\* a call of detect_events; locals: the clusters with what
\* _detect_event_type returned for each
CallDetectEvents ==
  /\ op' = "detect_events"
  /\ args' = <<>>
  /\ locals' = Classified(cluster_moods(moods))
  /\ ret' = EventsOf(locals')
  /\ moods' = SelfMoodsAfterSort(moods)

DetectEvents == op = "init" /\ CallDetectEvents

\* a call of get_area_mood; locals: area_moods
CallGetAreaMood ==
  \E lat \in AreaCenters, radius_km \in AreaRadii :
    /\ op' = "get_area_mood"
    /\ args' = [lat |-> lat, radius_km |-> radius_km]
    /\ locals' = AreaMoods(moods, lat, radius_km)
    /\ ret' = AreaMoodOf(locals')
    /\ UNCHANGED moods

GetAreaMood == op = "init" /\ CallGetAreaMood

\* a call of get_mood_trends; now is the clock read by the call, recorded
\* with the argument; locals: period_moods of the six periods
CallGetMoodTrends ==
  \E hours \in TrendHours, now \in TrendClock :
    /\ op' = "get_mood_trends"
    /\ args' = [hours |-> hours, now |-> now]
    /\ locals' = [i \in 1..TREND_PERIODS |-> PeriodMoods(moods, now, hours, i - 1)] \o <<>>
    /\ ret' = get_mood_trends(moods, hours, now)
    /\ UNCHANGED moods

GetMoodTrends == op = "init" /\ CallGetMoodTrends

\* _calculate_mood_percentage on the whole list
CalculateMoodPercentage ==
  /\ op = "init"
  /\ op' = "_calculate_mood_percentage"
  /\ args' = <<>>
  /\ locals' = <<>>
  /\ ret' = _calculate_mood_percentage(moods)
  /\ UNCHANGED moods

DetectEventType ==
  \E text \in TypeTexts :
    /\ op = "init"
    /\ op' = "_detect_event_type"
    /\ args' = text
    /\ locals' = EventScores(text)
    /\ ret' = _detect_event_type(text)
    /\ UNCHANGED moods

\* a request of /api/events; moods is the table of the observations, now
\* the clock read by the filter on time; locals: the rows passed to the
\* analyzer and the events it returned
GetEvents ==
  \E place \in ApiPlaces, hours \in ApiEventHours,
     min_confidence \in ApiMinConfidence, now \in ApiClock :
    /\ op = "init"
    /\ op' = "get_events"
    /\ args' = [lat |-> place[1], radius |-> place[2], hours |-> hours,
                min_confidence |-> min_confidence, now |-> now]
    /\ LET passed == get_mood_data_for_api(moods, place[1], place[2],
                                           <<hours>>, <<>>, now)
       IN locals' = [moods |-> passed, events |-> detect_events(passed)]
    /\ ret' = FilterByConfidence(locals'.events, min_confidence)
    /\ UNCHANGED moods

\* a request of /api/trends; locals: the rows passed to the analyzer
GetTrends ==
  \E place \in ApiPlaces, hours \in ApiTrendHours, now \in ApiClock :
    /\ op = "init"
    /\ op' = "get_trends"
    /\ args' = [lat |-> place[1], radius |-> place[2], hours |-> hours, now |-> now]
    /\ locals' = [moods |-> get_mood_data_for_api(moods, place[1], place[2],
                                                  <<>>, <<>>, now)]
    /\ ret' = WithTotalMoods(get_mood_trends(locals'.moods, hours, now), locals'.moods)
    /\ UNCHANGED moods

NextCluster == ClusterMoods

NextEvents == DetectEvents

NextArea == GetAreaMood

NextTrends == GetMoodTrends

NextCounts == CalculateMoodPercentage \/ GetAreaMood

NextType == DetectEventType

NextExtremes == CalculateMoodPercentage

Next == ClusterMoods \/ DetectEvents \/ GetAreaMood \/ GetMoodTrends

\* calls one after another on the same analyzer
NextRepeat == CallClusterMoods \/ CallDetectEvents \/ CallGetAreaMood \/ CallGetMoodTrends

SpecCluster == InitCluster /\ [][NextCluster]_vars

SpecEvents == InitEvents /\ [][NextEvents]_vars

SpecArea == InitArea /\ [][NextArea]_vars

SpecTrends == InitTrends /\ [][NextTrends]_vars

SpecCounts == InitCounts /\ [][NextCounts]_vars

SpecType == InitEmpty /\ [][NextType]_vars

SpecExtremes == InitExtremes /\ [][NextExtremes]_vars

Spec == InitSample /\ [][Next]_vars

SpecRepeat == InitRepeat /\ [][NextRepeat]_vars

NextGroups == ClusterMoods \/ DetectEvents

NextApi == GetEvents \/ GetTrends

SpecApi == InitApi /\ [][NextApi]_vars

SpecGroups == InitGroups /\ [][NextGroups]_vars

---------------------------------------------------------------------------
(* Properties of cluster_moods, under SpecCluster *)

\* C1: every member of a cluster returned by cluster_moods is within
\* CLUSTER_RADIUS_KM of the cluster's seed (its first member) and within
\* TIME_WINDOW_HOURS of it in time, both bounds inclusive; membership is
\* decided against the seed only: a returned cluster holds every observation
\* not taken by an earlier cluster that is within both bounds of its seed,
\* whatever its distance to the other members.
C1_MembersWithinSeed ==
  op = "cluster_moods" =>
    /\ \A k \in 1..Len(ret) : \A j \in 1..Len(ret[k].moods) :
         /\ Abs(ret[k].moods[1].latitude - ret[k].moods[j].latitude)
              <= CLUSTER_RADIUS_KM
         /\ Abs(ret[k].moods[1].timestamp - ret[k].moods[j].timestamp)
              <= TIME_WINDOW_HOURS
    /\ \A c \in 1..Len(locals) : \A i \in 1..Len(moods) :
         ( /\ Len(locals[c].moods) >= MIN_CLUSTER_SIZE
           /\ moods[i].id \notin locals[c].processed_before
           /\ Abs(locals[c].seed.latitude - moods[i].latitude) <= CLUSTER_RADIUS_KM
           /\ Abs(locals[c].seed.timestamp - moods[i].timestamp) <= TIME_WINDOW_HOURS )
         => moods[i] \in Range(locals[c].moods)

\* a returned cluster with a member at exactly the radius and exactly the
\* time window from the seed, and two members farther apart than the radius
C1_Witness ==
  /\ op = "cluster_moods"
  /\ \E k \in 1..Len(ret) :
       /\ \E j \in 1..Len(ret[k].moods) :
            /\ Abs(ret[k].moods[1].latitude - ret[k].moods[j].latitude)
                 = CLUSTER_RADIUS_KM
            /\ Abs(ret[k].moods[1].timestamp - ret[k].moods[j].timestamp)
                 = TIME_WINDOW_HOURS
       /\ \E i, j \in 1..Len(ret[k].moods) :
            Abs(ret[k].moods[i].latitude - ret[k].moods[j].latitude)
              > CLUSTER_RADIUS_KM

\* C2: every cluster returned by cluster_moods has at least MIN_CLUSTER_SIZE
\* (5) members, and no cluster formed with fewer members is returned.
C2_ClusterSize ==
  op = "cluster_moods" =>
    /\ \A k \in 1..Len(ret) : Len(ret[k].moods) >= 5
    /\ \A c \in 1..Len(locals) :
         Len(locals[c].moods) < 5
           => \A k \in 1..Len(ret) : ret[k].moods # locals[c].moods

\* a list of five observations returned as one cluster of exactly five
C2_Witness ==
  /\ op = "cluster_moods"
  /\ Len(ret) = 1
  /\ Len(ret[1].moods) = 5
  /\ Len(moods) = 5

---------------------------------------------------------------------------
(* Properties of all operations, under Spec *)

\* C3: for every list, the empty and the one-element lists included, every
\* mood_percentage produced by cluster_moods, detect_events, get_area_mood
\* and get_mood_trends and every confidence produced by _detect_event_type
\* and detect_events is an integer from 0 to 100.
C3_PercentRange ==
  /\ op = "cluster_moods" =>
       \A k \in 1..Len(ret) : ret[k].mood_percentage \in 0..100
  /\ op = "detect_events" =>
       /\ \A k \in 1..Len(ret) :
            ret[k].mood_percentage \in 0..100 /\ ret[k].confidence \in 0..100
       /\ \A k \in 1..Len(locals) :
            /\ locals[k].detected.confidence \in 0..100
            /\ locals[k].cluster.mood_percentage \in 0..100
  /\ op = "get_area_mood" => ret.mood_percentage \in 0..100
  /\ op = "get_mood_trends" =>
       \A i \in 1..Len(ret.mood_percentages) : ret.mood_percentages[i] \in 0..100

\* an event whose confidence is capped at 100 and whose percentage is 50
C3_Witness ==
  /\ op = "detect_events"
  /\ \E k \in 1..Len(ret) : ret[k].confidence = 100 /\ ret[k].mood_percentage = 50

---------------------------------------------------------------------------
(* Properties of detect_events, under SpecEvents *)

\* some keyword of some category is a substring of text
MatchesKeyword(text) ==
  \E c \in 1..Len(EVENT_KEYWORDS) : \E i \in 1..Len(EVENT_KEYWORDS[c].keywords) :
    Contains(text, EVENT_KEYWORDS[c].keywords[i])

\* no member of the cluster has text
HasNoText(cluster) == \A j \in 1..Len(cluster.moods) : cluster.moods[j].text = <<>>

\* C4: detect_events emits no event with confidence < 30; a cluster in which
\* no member has text, or whose joined text matches no keyword of any
\* category, is classified 'unknown' with confidence 0 and no keywords, and
\* is not in the returned list.
C4_NoLowConfidence ==
  op = "detect_events" =>
    /\ \A k \in 1..Len(ret) : ret[k].confidence >= 30
    /\ \A k \in 1..Len(locals) :
         (HasNoText(locals[k].cluster) \/ ~MatchesKeyword(AllText(locals[k].cluster)))
           => locals[k].detected = [type |-> "unknown", keywords |-> <<>>, confidence |-> 0]
    /\ Len(ret) <= Cardinality({k \in 1..Len(locals) :
                                  /\ ~HasNoText(locals[k].cluster)
                                  /\ MatchesKeyword(AllText(locals[k].cluster))})

\* a cluster with text that matches no keyword: classified unknown, no event
C4_Witness ==
  /\ op = "detect_events"
  /\ Len(locals) = 1
  /\ ~HasNoText(locals[1].cluster)
  /\ ~MatchesKeyword(AllText(locals[1].cluster))
  /\ locals[1].detected.type = "unknown"
  /\ ret = <<>>

---------------------------------------------------------------------------
(* Properties of _calculate_mood_percentage, under SpecCounts *)

\* the number of observations at the positions S whose emoji is in the list
CountIn(ms, S, emojis) == Cardinality({i \in S : IsIn(ms[i].emoji, emojis)})

\* 50 without an emoji of the three sets, else floor(100*(2P+U) / (2*(P+N+U)))
FloorPercent(P, N, U) ==
  IF P + N + U = 0 THEN 50 ELSE (100 * (2 * P + U)) \div (2 * (P + N + U))

\* C5: with P, N, U the numbers of observations whose emoji is positive,
\* negative and neutral, _calculate_mood_percentage returns 50 when
\* P + N + U = 0 and floor(100 * (2P + U) / (2 * (P + N + U))) otherwise.
C5_FloorFormula ==
  op = "_calculate_mood_percentage" =>
    ret = FloorPercent(CountIn(moods, DOMAIN moods, POSITIVE_EMOJIS),
                       CountIn(moods, DOMAIN moods, NEGATIVE_EMOJIS),
                       CountIn(moods, DOMAIN moods, NEUTRAL_EMOJIS))

---------------------------------------------------------------------------
(* Properties of _detect_event_type, under SpecType *)

\* the categories in the order of their declaration
DeclaredOrder == <<"concert", "sports", "traffic", "weather", "food", "party">>

\* the number of keywords of category c that are substrings of text
Matched(text, c) ==
  Cardinality({i \in 1..Len(EVENT_KEYWORDS[c].keywords) :
                 Contains(text, EVENT_KEYWORDS[c].keywords[i])})

\* the position of the returned category in the table
Winner == CHOOSE c \in 1..Len(DeclaredOrder) : DeclaredOrder[c] = ret.type

\* C6, as stated: for a text with a keyword match the confidence of the
\* winning category is min(round(matched / total * 100) + 20, 100), for the
\* category sizes 4, 5 and 6 and every number of matches.
C6_RoundedConfidence ==
  (op = "_detect_event_type" /\ MatchesKeyword(args)) =>
    LET matched == Matched(args, Winner)
        total == Len(EVENT_KEYWORDS[Winner].keywords)
    IN ret.confidence
         = (IF RoundDiv(matched * 100, total) + 20 >= 100 THEN 100
            ELSE RoundDiv(matched * 100, total) + 20)

\* C6, amended: the confidence of the winning category is
\* min(floor(matched / total * 100) + 20, 100): the ratio is cut to an
\* integer percentage, not rounded; one match of five keywords gives 40.
C6_TruncatedConfidence ==
  (op = "_detect_event_type" /\ MatchesKeyword(args)) =>
    LET matched == Matched(args, Winner)
        total == Len(EVENT_KEYWORDS[Winner].keywords)
    IN /\ total \in {4, 5, 6}
       /\ matched \in 1..total
       /\ ret.keywords = FoundKeywords(args, Winner)
       /\ ret.confidence
            = (IF (matched * 100) \div total + 20 >= 100 THEN 100
               ELSE (matched * 100) \div total + 20)
       /\ (matched = 1 /\ total = 5) => ret.confidence = 40

\* four of the six keywords of sports: 66.67 percent is cut to 66, not
\* rounded to 67
C6_Witness ==
  /\ op = "_detect_event_type"
  /\ ret.type = "sports"
  /\ Len(ret.keywords) = 4
  /\ ret.confidence = 86

\* C7: when some category has a keyword match, _detect_event_type returns
\* the category with the most matched keywords, and of several categories
\* with the most the one declared first (concert, sports, traffic, weather,
\* food, party).
C7_HighestCountFirstDeclared ==
  (op = "_detect_event_type" /\ MatchesKeyword(args)) =>
    /\ [c \in 1..Len(EVENT_KEYWORDS) |-> EVENT_KEYWORDS[c].name] = DeclaredOrder
    /\ \E c \in 1..Len(DeclaredOrder) :
         /\ ret.type = DeclaredOrder[c]
         /\ \A d \in 1..Len(DeclaredOrder) : Matched(args, d) <= Matched(args, c)
         /\ \A d \in 1..(c - 1) : Matched(args, d) < Matched(args, c)

\* concert and sports both with the most matches: concert is returned
C7_Witness ==
  /\ op = "_detect_event_type"
  /\ Matched(args, 1) > 0
  /\ Matched(args, 2) = Matched(args, 1)
  /\ \A d \in 1..Len(DeclaredOrder) : Matched(args, d) <= Matched(args, 1)
  /\ ret.type = "concert"

---------------------------------------------------------------------------
(* Properties of get_area_mood, under SpecArea and SpecCounts *)

\* the positions of the observations within the radius of the center
WithinRadius ==
  {i \in 1..Len(moods) : Abs(moods[i].latitude - args.lat) <= args.radius_km}

\* C8: get_area_mood returns exactly {dominant_emoji: the neutral default
\* emoji, mood_percentage: 50, moods_count: 0} whenever no observation lies
\* within the radius of the center, for the empty list and for a list whose
\* observations are all farther than the radius.
C8_AreaDefault ==
  (op = "get_area_mood" /\ WithinRadius = {}) =>
    ret = [dominant_emoji |-> "neutral", mood_percentage |-> 50, moods_count |-> 0]

\* a list that is not empty, all of it farther than the radius
C8_Witness ==
  /\ op = "get_area_mood"
  /\ moods # <<>>
  /\ WithinRadius = {}
  /\ \E i \in 1..Len(moods) : Abs(moods[i].latitude - args.lat) = args.radius_km + 1
  /\ ret.moods_count = 0

\* C9: get_area_mood computes its result from exactly the observations
\* whose distance to the center is <= radius_km: moods_count is their
\* number, those with an emoji outside the three sets included, and
\* mood_percentage is the shared formula, 50 without an emoji of the three
\* sets and floor(100 * (2P + U) / (2 * (P + N + U))) otherwise, over them.
C9_AreaFromWithinRadius ==
  op = "get_area_mood" =>
    /\ ret.moods_count = Cardinality(WithinRadius)
    /\ ret.mood_percentage
         = FloorPercent(CountIn(moods, WithinRadius, POSITIVE_EMOJIS),
                        CountIn(moods, WithinRadius, NEGATIVE_EMOJIS),
                        CountIn(moods, WithinRadius, NEUTRAL_EMOJIS))

---------------------------------------------------------------------------
(* Properties of get_mood_trends, under SpecTrends *)

\* the positions of the observations of period i (1 is the most recent)
InPeriodOf(i) ==
  {j \in 1..Len(moods) :
     /\ args.now - i * args.hours <= moods[j].timestamp
     /\ moods[j].timestamp <= args.now - (i - 1) * args.hours}

\* C10: get_mood_trends returns exactly 6 period labels and exactly 6
\* percentages for every list and span; a period without observations has
\* percentage 0, so the empty list gives six 0 and trend_direction 'stable'.
C10_SixPeriods ==
  op = "get_mood_trends" =>
    /\ Len(ret.time_periods) = 6
    /\ Len(ret.mood_percentages) = 6
    /\ \A i \in 1..6 : InPeriodOf(i) = {} => ret.mood_percentages[i] = 0
    /\ moods = <<>> =>
         /\ ret.mood_percentages = <<0, 0, 0, 0, 0, 0>>
         /\ ret.trend_direction = "stable"

\* a list that is not empty, with a period that has observations and one
\* that has none
C10_Witness ==
  /\ op = "get_mood_trends"
  /\ \E i \in 1..6 : InPeriodOf(i) # {} /\ ret.mood_percentages[i] > 0
  /\ \E i \in 1..6 : InPeriodOf(i) = {} /\ ret.mood_percentages[i] = 0

\* the list with the emoji and the time of observation j changed
Changed(ms, j, emoji, timestamp) ==
  [ms EXCEPT ![j].emoji = emoji, ![j].timestamp = timestamp]

\* the list without observation j
Without(ms, j) == SubSeq(ms, 1, j - 1) \o SubSeq(ms, j + 1, Len(ms))

\* the time t lies in period i of the call
TimeInPeriod(t, i) ==
  args.now - i * args.hours <= t /\ t <= args.now - (i - 1) * args.hours

\* the time t lies in one of the four older periods and in neither of the
\* two most recent ones
OnlyInOlder(t) ==
  /\ \E i \in 3..6 : TimeInPeriod(t, i)
  /\ ~TimeInPeriod(t, 1)
  /\ ~TimeInPeriod(t, 2)

\* trend_direction of get_mood_trends on the list ms at the clock and with
\* the argument of the call
DirectionOn(ms) ==
  TrendDirection([i \in 1..TREND_PERIODS |->
                    PeriodPercentage(PeriodMoods(ms, args.now, args.hours, i - 1))] \o <<>>)

\* C11: trend_direction depends only on the percentages of the two most
\* recent periods: 'up' if the most recent is greater than the second most
\* recent, 'down' if it is smaller, 'stable' if they are equal; removing
\* an observation that falls only in the four older periods, changing its
\* emoji or moving it within the older periods does not change
\* trend_direction.
C11_DirectionOfTwoRecent ==
  op = "get_mood_trends" =>
    /\ ret.trend_direction
         = (IF ret.mood_percentages[1] > ret.mood_percentages[2] THEN "up"
            ELSE IF ret.mood_percentages[1] < ret.mood_percentages[2] THEN "down"
            ELSE "stable")
    /\ \A j \in 1..Len(moods) :
         OnlyInOlder(moods[j].timestamp) =>
           /\ DirectionOn(Without(moods, j)) = ret.trend_direction
           /\ \A emoji \in TrendEmoji :
                DirectionOn(Changed(moods, j, emoji, moods[j].timestamp))
                  = ret.trend_direction
           /\ \A timestamp \in TrendTimes :
                OnlyInOlder(timestamp) =>
                  DirectionOn(Changed(moods, j, moods[j].emoji, timestamp))
                    = ret.trend_direction

\* 'down' from the two most recent periods while an older period has the
\* percentage 100
C11_Witness ==
  /\ op = "get_mood_trends"
  /\ ret.trend_direction = "down"
  /\ \E i \in 3..6 : ret.mood_percentages[i] = 100
  /\ \E j \in 1..Len(moods) : OnlyInOlder(moods[j].timestamp)

\* C12: trend_direction is 'stable' whenever fewer than 2 of the periods
\* contain an observation.
C12_StableWithoutTwoPeriods ==
  op = "get_mood_trends" =>
    (Cardinality({i \in 1..6 : InPeriodOf(i) # {}}) < 2
       => ret.trend_direction = "stable")

\* C13: the periods do not overlap: every observation with a timestamp in
\* [now - span, now] is in the period_moods of exactly one period, also
\* when its timestamp is the bound between two adjacent periods.
C13_ExactlyOnePeriod ==
  op = "get_mood_trends" =>
    \A j \in 1..Len(moods) :
      ( /\ args.now - 6 * args.hours <= moods[j].timestamp
        /\ moods[j].timestamp <= args.now )
      => Cardinality({i \in 1..6 : moods[j] \in Range(locals[i])}) = 1

\* C14: emoji_counts maps each emoji of the list to the number of its
\* occurrences in the whole list, whatever the span and the period bounds:
\* observations older than now - span or later than now are counted too.
C14_EmojiCountsWholeList ==
  op = "get_mood_trends" =>
    /\ DOMAIN ret.emoji_counts = {moods[j].emoji : j \in 1..Len(moods)}
    /\ \A e \in DOMAIN ret.emoji_counts :
         ret.emoji_counts[e] = Cardinality({j \in 1..Len(moods) : moods[j].emoji = e})

\* an emoji counted twice, once older than the span and once later than the
\* clock, no period holding an observation
C14_Witness ==
  /\ op = "get_mood_trends"
  /\ \E j, k \in 1..Len(moods) :
       /\ moods[j].timestamp < args.now - 6 * args.hours
       /\ moods[k].timestamp > args.now
       /\ moods[j].emoji = moods[k].emoji
       /\ ret.emoji_counts[moods[j].emoji] = 2
  /\ \A i \in 1..6 : locals[i] = <<>>

---------------------------------------------------------------------------
(* Properties of calls one after another, under SpecRepeat, and of the     *)
(* order of the list, under Spec                                           *)

\* the next call is the call just made, with the same arguments (the clock
\* is no argument)
SameCallAgain ==
  /\ op' = op
  /\ moods' = moods
  /\ op = "get_area_mood" => args' = args
  /\ op = "get_mood_trends" => args'.hours = args.hours

\* C15: running cluster_moods, detect_events, get_area_mood or
\* get_mood_trends again on the same list with the same arguments gives the
\* same result: the result depends on the list and the arguments only, not
\* on hidden state such as the clock read by get_mood_trends.
C15_SameCallSameResult == [][SameCallAgain => ret' = ret]_vars

\* the observations of ms in the order p
Permuted(ms, p) == [i \in 1..Len(ms) |-> ms[p[i]]] \o <<>>

\* the member sets and dominant emoji of clusters
MembersAndDominant(clusters) ==
  {[members |-> IdsOf(clusters[k].moods), dominant_emoji |-> clusters[k].dominant_emoji] :
     k \in 1..Len(clusters)}

\* C16: the order of the list is irrelevant: for every permutation of the
\* observations cluster_moods returns the same clusters (member sets and
\* dominant_emoji), detect_events the same events and get_area_mood the
\* same result, also when observations share a timestamp or emoji tie for
\* the most frequent.
C16_OrderIrrelevant ==
  /\ op = "cluster_moods" =>
       \A p \in Permutations(1..Len(moods)) :
         MembersAndDominant(cluster_moods(Permuted(moods, p))) = MembersAndDominant(ret)
  /\ op = "detect_events" =>
       \A p \in Permutations(1..Len(moods)) :
         Range(detect_events(Permuted(moods, p))) = Range(ret)
  /\ op = "get_area_mood" =>
       \A p \in Permutations(1..Len(moods)) :
         get_area_mood(Permuted(moods, p), args.lat, args.radius_km) = ret

\* C17: no operation modifies the list of the analyzer: after every call
\* self.moods has the same elements in the same order with the same fields;
\* no state is carried from a call to the next: the same call with the same
\* arguments and the same clock returns the same again.
C17_ListUnchanged ==
  [][ /\ moods' = moods
      /\ (op' = op /\ args' = args) => ret' = ret ]_vars

\* detect_events has been called on a list that is not in the order of
\* the sort
C17_Witness ==
  /\ op = "detect_events"
  /\ Len(moods) >= 2
  /\ SortedMoods(moods) # moods

\* C18: for the empty list and for every list of fewer than 5 observations
\* cluster_moods returns the empty list and detect_events returns the empty
\* list.
C18_FewObservations ==
  Len(moods) < 5 =>
    /\ op = "cluster_moods" => ret = <<>>
    /\ op = "detect_events" => ret = <<>>

\* four observations within the bounds of their seed: one cluster formed,
\* none returned
C18_Witness ==
  /\ op = "cluster_moods"
  /\ Len(moods) = 4
  /\ Len(locals) = 1
  /\ Len(locals[1].moods) = 4
  /\ ret = <<>>

---------------------------------------------------------------------------
(* Properties of the percentage of long lists, under SpecExtremes *)

\* the numbers of positive, negative and neutral emoji of the list
CountP == CountIn(moods, DOMAIN moods, POSITIVE_EMOJIS)

CountN == CountIn(moods, DOMAIN moods, NEGATIVE_EMOJIS)

CountU == CountIn(moods, DOMAIN moods, NEUTRAL_EMOJIS)

\* C19, as stated: for a list with an emoji of the three sets the
\* percentage is 100 exactly when all its emoji of the three sets are
\* positive and 0 exactly when all of them are negative; a list whose emoji
\* of the three sets are all neutral, or that has none, gives 50.
C19_ExtremesExactly ==
  op = "_calculate_mood_percentage" =>
    /\ CountP + CountN + CountU > 0 =>
         /\ ret = 100 <=> (CountN = 0 /\ CountU = 0)
         /\ ret = 0 <=> (CountP = 0 /\ CountU = 0)
    /\ (CountP = 0 /\ CountN = 0) => ret = 50

\* C19, amended: the percentage is 100 exactly when all emoji of the three
\* sets are positive; it is 0 when all of them are negative, and exactly
\* when 50 * (2P + U) < P + N + U, which a list with a positive or a
\* neutral emoji reaches only with at least 51 emoji of the three sets; all
\* neutral, or none of the three sets, gives 50.
C19_ExtremesAmended ==
  op = "_calculate_mood_percentage" =>
    /\ CountP + CountN + CountU > 0 =>
         /\ ret = 100 <=> (CountN = 0 /\ CountU = 0)
         /\ ret = 0 <=> 50 * (2 * CountP + CountU) < CountP + CountN + CountU
         /\ (CountP = 0 /\ CountU = 0) => ret = 0
         /\ (ret = 0 /\ CountP + CountU > 0) => CountP + CountN + CountU >= 51
    /\ (CountP = 0 /\ CountN = 0) => ret = 50

\* 50 negative emoji and 1 neutral one: the percentage is 0
C19_Witness ==
  /\ op = "_calculate_mood_percentage"
  /\ CountP = 0
  /\ CountN = 50
  /\ CountU = 1
  /\ ret = 0

---------------------------------------------------------------------------
(* Properties of the fields of an event, under Spec *)

\* the classified clusters that detect_events emits, in order
EmittedClusters == SelectSeq(locals, LAMBDA x : x.detected.confidence >= 30)

\* the position of category type in the table
CategoryOf(type) == CHOOSE c \in 1..Len(EVENT_KEYWORDS) : EVENT_KEYWORDS[c].name = type

\* C20: every event carries the values of the cluster it is derived from:
\* location is the cluster's center, dominant_emoji and mood_percentage are
\* the cluster's, moods_count is the number of its members (so at least 5),
\* and keywords is the list of the keywords of the winning category found
\* in the cluster's text, in the order of the table.
C20_EventCarriesCluster ==
  op = "detect_events" =>
    /\ Len(ret) = Len(EmittedClusters)
    /\ \A k \in 1..Len(ret) :
         LET cluster == EmittedClusters[k].cluster
         IN /\ ret[k].location = cluster.center
            /\ ret[k].location = <<SumLatitude(cluster.moods), Len(cluster.moods)>>
            /\ ret[k].dominant_emoji = cluster.dominant_emoji
            /\ ret[k].mood_percentage = cluster.mood_percentage
            /\ ret[k].moods_count = Len(cluster.moods)
            /\ ret[k].moods_count >= 5
            /\ ret[k].keywords
                 = SelectSeq(EVENT_KEYWORDS[CategoryOf(ret[k].type)].keywords,
                             LAMBDA keyword : Contains(AllText(cluster), keyword))

\* an event of a cluster of five with two keywords of the category food
C20_Witness ==
  /\ op = "detect_events"
  /\ \E k \in 1..Len(ret) :
       /\ ret[k].type = "food"
       /\ Len(ret[k].keywords) = 2
       /\ ret[k].moods_count = 5
       /\ ret[k].dominant_emoji = "mask"

---------------------------------------------------------------------------
(* Properties of the candidate clusters of cluster_moods, under SpecCluster *)

\* the ids assigned to the candidate clusters formed before the c-th one
AssignedBefore(c) == UNION {IdsOf(locals[d].moods) : d \in 1..(c - 1)}

\* moods[i] is within the radius and the time window of the seed mood
WithinBounds(seed, mood) ==
  /\ Abs(seed.latitude - mood.latitude) <= CLUSTER_RADIUS_KM
  /\ Abs(seed.timestamp - mood.timestamp) <= TIME_WINDOW_HOURS

\* C21: when an observation becomes a seed, every observation that is still
\* unassigned at that moment and lies within the time window and within the
\* radius of the seed, both inclusive, is added to the seed's candidate
\* cluster, whether the candidate is kept or not: none is left out.
C21_SeedTakesAllInReach ==
  op = "cluster_moods" =>
    \A c \in 1..Len(locals) :
      /\ locals[c].moods[1] = locals[c].seed
      /\ locals[c].seed.id \notin AssignedBefore(c)
      /\ \A i \in 1..Len(moods) :
           (moods[i].id \notin AssignedBefore(c) /\ WithinBounds(locals[c].seed, moods[i]))
             => moods[i] \in Range(locals[c].moods)

\* a later candidate cluster of fewer than five with a member at exactly the
\* radius from its seed, while an observation within both bounds of the seed
\* was assigned before
C21_Witness ==
  /\ op = "cluster_moods"
  /\ \E c \in 2..Len(locals) :
       /\ Len(locals[c].moods) < MIN_CLUSTER_SIZE
       /\ \E j \in 1..Len(locals[c].moods) :
            Abs(locals[c].seed.latitude - locals[c].moods[j].latitude)
              = CLUSTER_RADIUS_KM
       /\ \E i \in 1..Len(moods) :
            /\ moods[i].id \in AssignedBefore(c)
            /\ WithinBounds(locals[c].seed, moods[i])

\* C25: in every candidate cluster the seed is a most recent member: the
\* timestamp of every member is at most the seed's and at least the seed's
\* less the time window of 4 hours; so any two members of a returned cluster
\* are at most 4 hours apart in time, while in space two members are at most
\* twice the radius apart.
C25_SeedMostRecent ==
  op = "cluster_moods" =>
    /\ \A c \in 1..Len(locals) : \A j \in 1..Len(locals[c].moods) :
         /\ locals[c].moods[j].timestamp <= locals[c].seed.timestamp
         /\ locals[c].moods[j].timestamp >= locals[c].seed.timestamp - TIME_WINDOW_HOURS
    /\ \A k \in 1..Len(ret) : \A i, j \in 1..Len(ret[k].moods) :
         /\ Abs(ret[k].moods[i].timestamp - ret[k].moods[j].timestamp)
              <= TIME_WINDOW_HOURS
         /\ Abs(ret[k].moods[i].latitude - ret[k].moods[j].latitude)
              <= 2 * CLUSTER_RADIUS_KM

\* a returned cluster whose seed is not the first observation of the list,
\* which is older than the seed, with a member a whole time window older
\* than the seed
C25_Witness ==
  /\ op = "cluster_moods"
  /\ \E k \in 1..Len(ret) :
       /\ ret[k].moods[1].id # 1
       /\ \E j \in 1..Len(ret[k].moods) :
            ret[k].moods[j].timestamp = ret[k].moods[1].timestamp - TIME_WINDOW_HOURS
       /\ moods[1].timestamp < ret[k].moods[1].timestamp

---------------------------------------------------------------------------
(* Properties of lists with several clusters, under SpecGroups *)

\* C22: an observation placed in a candidate cluster that is discarded for
\* having fewer than 5 members stays marked as assigned: it is the seed of
\* no candidate cluster formed afterwards, it is a member of none, and it is
\* in no returned cluster, even when it lies within both bounds of a later
\* seed whose cluster is returned.
C22_DiscardedStayAssigned ==
  op = "cluster_moods" =>
    \A c \in 1..Len(locals) :
      Len(locals[c].moods) < 5 =>
        \A j \in 1..Len(locals[c].moods) :
          /\ \A d \in (c + 1)..Len(locals) :
               /\ locals[d].seed.id # locals[c].moods[j].id
               /\ locals[c].moods[j] \notin Range(locals[d].moods)
          /\ \A k \in 1..Len(ret) :
               locals[c].moods[j] \notin Range(ret[k].moods)

\* a member of a discarded candidate cluster, not its seed, lies within both
\* bounds of the seed of a later candidate cluster that is returned
C22_Witness ==
  /\ op = "cluster_moods"
  /\ \E c \in 1..Len(locals) : \E d \in (c + 1)..Len(locals) :
       /\ Len(locals[c].moods) < 5
       /\ Len(locals[d].moods) >= 5
       /\ \E k \in 1..Len(ret) : ret[k].moods = locals[d].moods
       /\ \E j \in 2..Len(locals[c].moods) :
            WithinBounds(locals[d].seed, locals[c].moods[j])

---------------------------------------------------------------------------
(* Properties of dominant_emoji, under Spec *)

\* the position of the first e in list
FirstIndex(list, e) ==
  CHOOSE i \in 1..Len(list) : list[i] = e /\ \A j \in 1..(i - 1) : list[j] # e

\* d has the highest count in emojis, and of the emoji with that count it is
\* the one met first
IsFirstMostFrequent(emojis, d) ==
  /\ d \in Range(emojis)
  /\ \A e \in Range(emojis) :
       /\ CountOf(emojis, e) <= CountOf(emojis, d)
       /\ (CountOf(emojis, e) = CountOf(emojis, d) /\ e # d)
            => FirstIndex(emojis, d) < FirstIndex(emojis, e)

\* a comes before b in the scan of cluster_moods: a later timestamp, and for
\* equal timestamps the earlier place in the list
ScannedBefore(a, b) ==
  \/ a.timestamp > b.timestamp
  \/ a.timestamp = b.timestamp /\ a.id < b.id

\* the emoji of the observations within the radius, in the order of the list
EmojiWithinRadius ==
  EmojisOf(SelectSeq(moods, LAMBDA m : Abs(m.latitude - args.lat) <= args.radius_km))

\* C23: dominant_emoji of a cluster and of an area is an emoji with the
\* highest number of occurrences among the members; of several emoji with
\* that number it is the one whose first occurrence comes first in the
\* order of iteration: for a cluster the seed and then the other members in
\* the order of the scan (timestamps descending), for an area the order of
\* the list.
C23_DominantFirstMostFrequent ==
  /\ op = "cluster_moods" =>
       \A k \in 1..Len(ret) :
         /\ IsFirstMostFrequent(EmojisOf(ret[k].moods), ret[k].dominant_emoji)
         /\ \E c \in 1..Len(locals) :
              locals[c].seed = ret[k].moods[1] /\ locals[c].moods = ret[k].moods
         /\ \A i, j \in 2..Len(ret[k].moods) :
              i < j => ScannedBefore(ret[k].moods[i], ret[k].moods[j])
  /\ (op = "get_area_mood" /\ ret.moods_count > 0) =>
       IsFirstMostFrequent(EmojiWithinRadius, ret.dominant_emoji)

\* a cluster of five with two emoji of count two: the dominant one is the
\* emoji of the seed, and the list begins with the other one
C23_Witness ==
  /\ op = "cluster_moods"
  /\ \E k \in 1..Len(ret) :
       /\ ret[k].dominant_emoji = "smiling"
       /\ CountOf(EmojisOf(ret[k].moods), "smiling") = 2
       /\ CountOf(EmojisOf(ret[k].moods), "thinking") = 2
       /\ moods[1].emoji = "thinking"

\* C24: the clusters returned by cluster_moods are pairwise disjoint, every
\* observation id is in at most one of them and at most once, and for a
\* list of n observations there are at most floor(n / 5) of them.
C24_ClustersDisjoint ==
  op = "cluster_moods" =>
    /\ \A k, l \in 1..Len(ret) :
         k # l => IdsOf(ret[k].moods) \cap IdsOf(ret[l].moods) = {}
    /\ \A k \in 1..Len(ret) : \A i, j \in 1..Len(ret[k].moods) :
         i # j => ret[k].moods[i].id # ret[k].moods[j].id
    /\ \A k \in 1..Len(ret) : IdsOf(ret[k].moods) \subseteq 1..Len(moods)
    /\ 5 * Len(ret) <= Len(moods)

\* as many clusters as the length of the list allows, at least two, and an
\* observation in none of them that lies within both bounds of a seed
C24_Witness ==
  /\ op = "cluster_moods"
  /\ Len(ret) >= 2
  /\ Len(ret) = Len(moods) \div 5
  /\ \E i \in 1..Len(moods) :
       /\ \A k \in 1..Len(ret) : moods[i] \notin Range(ret[k].moods)
       /\ \E k \in 1..Len(ret) : WithinBounds(ret[k].moods[1], moods[i])

\* the clusters of detect_events whose joined text holds a keyword, in order
MatchingClusters ==
  SelectSeq(locals, LAMBDA x : MatchesKeyword(AllText(x.cluster)))

\* C26: every event emitted by detect_events has a type of the keyword
\* table, never 'unknown', a list of keywords that is not empty and a
\* confidence of at least 36; the filter confidence >= 30 removes exactly
\* the clusters without a keyword match: a cluster yields an event if and
\* only if its joined text holds at least one keyword.
C26_EventIffKeyword ==
  op = "detect_events" =>
    /\ \A k \in 1..Len(ret) :
         /\ \E c \in 1..Len(EVENT_KEYWORDS) : ret[k].type = EVENT_KEYWORDS[c].name
         /\ ret[k].type # "unknown"
         /\ ret[k].keywords # <<>>
         /\ ret[k].confidence >= 36
    /\ Len(ret) = Len(MatchingClusters)
    /\ \A k \in 1..Len(ret) :
         /\ ret[k].location = MatchingClusters[k].cluster.center
         /\ ret[k].moods_count = Len(MatchingClusters[k].cluster.moods)
    /\ \A c \in 1..Len(locals) :
         locals[c].detected.confidence < 30
           <=> ~MatchesKeyword(AllText(locals[c].cluster))

\* an event of confidence 36 (one keyword of six), and a cluster whose
\* text holds no keyword and that yields no event
C26_Witness ==
  /\ op = "detect_events"
  /\ \E k \in 1..Len(ret) : ret[k].confidence = 36 /\ ret[k].type = "sports"
  /\ \E c \in 1..Len(locals) :
       /\ ~HasNoText(locals[c].cluster)
       /\ ~MatchesKeyword(AllText(locals[c].cluster))
  /\ Len(ret) < Len(locals)

\* the clusters of the call in the order they were returned: ret of
\* cluster_moods, the classified clusters of detect_events
ReturnedClusters ==
  IF op = "cluster_moods" THEN ret
  ELSE [k \in 1..Len(locals) |-> locals[k].cluster] \o <<>>

\* event is the event of the classified cluster x
EventOfCluster(event, x) ==
  /\ event.location = x.cluster.center
  /\ event.moods_count = Len(x.cluster.moods)
  /\ event.dominant_emoji = x.cluster.dominant_emoji
  /\ event.mood_percentage = x.cluster.mood_percentage
  /\ event.type = x.detected.type
  /\ event.keywords = x.detected.keywords
  /\ event.confidence = x.detected.confidence

\* C27: cluster_moods returns the clusters in non-increasing order of the
\* timestamp of their seed, and detect_events returns the events in the
\* order of the clusters they come from: the events are an order-preserving
\* sub-sequence of the clusters, with at most one event for a cluster.
C27_OrderOfClustersAndEvents ==
  /\ op \in {"cluster_moods", "detect_events"} =>
       \A k, l \in 1..Len(ReturnedClusters) :
         k < l => ReturnedClusters[k].moods[1].timestamp
                    >= ReturnedClusters[l].moods[1].timestamp
  /\ op = "detect_events" =>
       /\ Len(ret) <= Len(locals)
       /\ \E f \in [1..Len(ret) -> 1..Len(locals)] :
            /\ \A k, l \in 1..Len(ret) : k < l => f[k] < f[l]
            /\ \A k \in 1..Len(ret) : EventOfCluster(ret[k], locals[f[k]])

\* three clusters with seeds of decreasing timestamps, events of the first
\* and of the third, none of the second
C27_Witness ==
  /\ op = "detect_events"
  /\ Len(locals) = 3
  /\ Len(ret) = 2
  /\ locals[1].cluster.moods[1].timestamp > locals[2].cluster.moods[1].timestamp
  /\ locals[2].cluster.moods[1].timestamp > locals[3].cluster.moods[1].timestamp
  /\ EventOfCluster(ret[1], locals[1])
  /\ EventOfCluster(ret[2], locals[3])
  /\ locals[2].detected.type = "unknown"

---------------------------------------------------------------------------
(* Properties of the percentage of a period, under SpecTrends *)

\* the number of observations of period i whose emoji is in the list emojis
CountInPeriod(i, emojis) ==
  Cardinality({j \in InPeriodOf(i) : IsIn(moods[j].emoji, emojis)})

\* no observation of period i has an emoji of the three sets
NoSignal(i) ==
  /\ CountInPeriod(i, POSITIVE_EMOJIS) = 0
  /\ CountInPeriod(i, NEGATIVE_EMOJIS) = 0
  /\ CountInPeriod(i, NEUTRAL_EMOJIS) = 0

\* C28, as stated: a period is given the percentage 0 only through the rule
\* for the empty period, when it holds no observation at all; a period with
\* observations none of whose emoji is in the three sets gets 50, not 0.
C28_ZeroOnlyWhenEmpty ==
  op = "get_mood_trends" =>
    \A i \in 1..6 :
      /\ ret.mood_percentages[i] = 0 => InPeriodOf(i) = {}
      /\ (InPeriodOf(i) # {} /\ NoSignal(i)) => ret.mood_percentages[i] = 50

\* C28, amended: a period without observations is given 0 by the rule for
\* the empty period; a period with observations gets the shared formula,
\* which gives 50, not 0, when none of their emoji is in the three sets, and
\* gives 0 when the emoji in the three sets are all negative; a period with
\* observations and percentage 0 holds a negative emoji.
C28_ZeroEmptyOrNegative ==
  op = "get_mood_trends" =>
    \A i \in 1..6 :
      /\ InPeriodOf(i) = {} => ret.mood_percentages[i] = 0
      /\ (InPeriodOf(i) # {} /\ NoSignal(i)) => ret.mood_percentages[i] = 50
      /\ ( /\ CountInPeriod(i, NEGATIVE_EMOJIS) > 0
           /\ CountInPeriod(i, POSITIVE_EMOJIS) = 0
           /\ CountInPeriod(i, NEUTRAL_EMOJIS) = 0 ) => ret.mood_percentages[i] = 0
      /\ (InPeriodOf(i) # {} /\ ret.mood_percentages[i] = 0)
           => CountInPeriod(i, NEGATIVE_EMOJIS) > 0

\* a period whose only observation has an emoji outside the three sets (50),
\* a period whose only observation has a negative emoji (0) and a period
\* without observations (0)
C28_Witness ==
  /\ op = "get_mood_trends"
  /\ \E i \in 1..6 :
       InPeriodOf(i) # {} /\ NoSignal(i) /\ ret.mood_percentages[i] = 50
  /\ \E i \in 1..6 :
       /\ CountInPeriod(i, NEGATIVE_EMOJIS) = Cardinality(InPeriodOf(i))
       /\ InPeriodOf(i) # {}
       /\ ret.mood_percentages[i] = 0
  /\ \E i \in 1..6 : InPeriodOf(i) = {} /\ ret.mood_percentages[i] = 0

---------------------------------------------------------------------------
(* Properties of the endpoints /api/trends and /api/events, under SpecApi *)

\* the sum of the values of f at the elements of S
RECURSIVE SumOver(_, _)
SumOver(f, S) ==
  IF S = {} THEN 0
  ELSE LET e == CHOOSE x \in S : TRUE IN f[e] + SumOver(f, S \ {e})

\* the positions of the rows that the filter on the place of the request
\* lets through
AreaRows ==
  {j \in 1..Len(moods) :
     \/ args.lat = <<>>
     \/ args.radius = <<>>
     \/ Abs(moods[j].latitude - args.lat[1]) <= args.radius[1]}

\* C29: in the response of /api/trends the values of emoji_counts add up to
\* total_moods, and total_moods is the number of observations passed to the
\* analyzer: the rows filtered by place, not restricted to the span of
\* hours of the request.
C29_CountsSumToTotal ==
  op = "get_trends" =>
    /\ SumOver(ret.emoji_counts, DOMAIN ret.emoji_counts) = ret.total_moods
    /\ ret.total_moods = Len(locals.moods)
    /\ ret.total_moods = Cardinality(AreaRows)
    /\ \A j \in AreaRows : moods[j] \in Range(locals.moods)

\* a request with a place: a row outside the radius is not counted, a row
\* older than the six periods is, and emoji_counts has two emoji
C29_Witness ==
  /\ op = "get_trends"
  /\ args.lat # <<>>
  /\ \E j \in 1..Len(moods) : j \notin AreaRows
  /\ \E j \in AreaRows : moods[j].timestamp < args.now - 6 * args.hours
  /\ Cardinality(DOMAIN ret.emoji_counts) = 2
  /\ ret.total_moods > 2

\* max(30, min_confidence) of the request
Threshold == IF args.min_confidence > 30 THEN args.min_confidence ELSE 30

\* the clusters of the rows passed to the analyzer, each with its type and
\* confidence
PassedClusters == Classified(cluster_moods(locals.moods))

\* C30: /api/events returns only events with confidence >= max(30,
\* min_confidence): with min_confidence below 30, 0 and negative values
\* included, no event with confidence below 30 gets through and the list of
\* the analyzer is returned as it is; with min_confidence above 30 events
\* are removed from that list and the others keep their order.
C30_EventsAtLeastThreshold ==
  op = "get_events" =>
    /\ \A k \in 1..Len(ret) : ret[k].confidence >= Threshold
    /\ ret = SelectSeq(locals.events, LAMBDA event : event.confidence >= Threshold)
    /\ args.min_confidence <= 30 => ret = locals.events
    /\ Len(ret) = Len(SelectSeq(PassedClusters,
                                LAMBDA x : x.detected.confidence >= Threshold))

\* a request with min_confidence 0 or less: a cluster of confidence 0 is
\* not returned, the events of confidence 36 and 40 are
C30_Witness ==
  /\ op = "get_events"
  /\ args.min_confidence <= 0
  /\ \E c \in 1..Len(PassedClusters) : PassedClusters[c].detected.confidence = 0
  /\ Len(ret) = 2
  /\ ret[1].confidence = 36
  /\ ret[2].confidence = 40

=============================================================================
